---------------------------- MODULE Spec2Model ----------------------------
(***************************************************************************)
(* Contact-form mail relay and health endpoint of the portfolio backend.   *)
(*                                                                         *)
(* Three contact handlers exist in the repository:                         *)
(*   "serverless"  the exported handler of the first half of               *)
(*                 src/unnamed/part_001 (lines 1-104),                     *)
(*   "app"         the express application of the second half of           *)
(*                 src/unnamed/part_001 (lines 107-349),                   *)
(*   "server"      src/server/server.js.                                   *)
(* The health handler is src/api/health.js.                                *)
(*                                                                         *)
(* Strings are sequences of one-character strings; a JavaScript value is a *)
(* record [t, s, n] with t one of "undef", "str", "num".                   *)
(***************************************************************************)
EXTENDS Naturals, Sequences, FiniteSets, TLC

VARIABLES
    variant,            \* which contact handler this process runs
    disk,               \* the logo candidates that exist on disk
    globalTransporter,  \* global.__transporter: 0 (unset) or a handle id
    created,            \* number of nodemailer.createTransport calls so far
    reqs,               \* per request slot: pc, request, transporter, response
    sends,              \* the sendMail calls made so far, in order
    verifies,           \* the transporter.verify calls made so far, in order
    log,                \* console.error records: <<slot, error>>
    pin,                \* input of the pure-function specifications
    pout,               \* their output
    health,             \* the health handler's request in flight
    now                 \* milliseconds since the health request arrived

vars == <<variant, disk, globalTransporter, created, reqs, sends, verifies,
          log, pin, pout, health, now>>

contactVars == <<variant, disk, globalTransporter, created, reqs, sends,
                 verifies, log>>
pureVars == <<pin, pout>>
healthVars == <<health, now>>
notContact == <<pin, pout, health, now>>

---------------------------------------------------------------------------
(* Bounds of the model *)

\* request slots of one contact process
MaxReqs == 2
\* longest string enumerated for escapeHtml
MaxEscLen == 5
\* longest email enumerated for the email rule
MaxEmailLen == 6
\* longest name enumerated for the validation
MaxNameLen == 4
\* longest run of non-blank characters of an enumerated message
MaxMsgLen == 11
\* longest run of blanks put before or after an enumerated message
MaxPad == 1
\* milliseconds the clock of the health process advances in one step
TickMs == 1000
\* the clock stops here once no timer is pending
MaxClock == 6000

---------------------------------------------------------------------------
(* JavaScript values *)

Undef == [t |-> "undef", s |-> <<>>, n |-> 0]
Str(s) == [t |-> "str", s |-> s, n |-> 0]
Num(n) == [t |-> "num", s |-> <<>>, n |-> n]

\* the characters /\s/ and String.prototype.trim treat as blank
WhiteSpace == {" ", "\n", "\t"}

Digits == <<"0", "1", "2", "3", "4", "5", "6", "7", "8", "9">>

\* !v is FALSE: undefined, "" and 0 are falsy
Truthy(v) ==
    CASE v.t = "undef" -> FALSE
      [] v.t = "str" -> Len(v.s) > 0
      [] OTHER -> v.n # 0

\* String(v) of a defined value (one-digit numbers)
JsString(v) == IF v.t = "str" THEN v.s ELSE <<Digits[v.n + 1]>>

\* only strings have a trim method: v.trim() throws a TypeError otherwise
HasTrim(v) == v.t = "str"

RECURSIVE TrimStart(_)
TrimStart(s) ==
    IF s # <<>> /\ Head(s) \in WhiteSpace THEN TrimStart(Tail(s)) ELSE s

RECURSIVE TrimEnd(_)
TrimEnd(s) ==
    IF s # <<>> /\ s[Len(s)] \in WhiteSpace
    THEN TrimEnd(SubSeq(s, 1, Len(s) - 1))
    ELSE s

Trim(s) == TrimEnd(TrimStart(s))

\* s.replace(/c/g, by): every occurrence of the character c replaced by by
RECURSIVE ReplaceAll(_, _, _)
ReplaceAll(s, c, by) ==
    IF s = <<>> THEN <<>>
    ELSE (IF Head(s) = c THEN by ELSE <<Head(s)>>) \o ReplaceAll(Tail(s), c, by)

---------------------------------------------------------------------------
(* The email pattern /^[^\s@]+@[^\s@]+\.[^\s@]+$/ *)

\* [^\s@]
EmailClass(c) == c \notin WhiteSpace /\ c # "@"

Plus == [kind |-> "plus", ch |-> ""]
Lit(c) == [kind |-> "lit", ch |-> c]

EmailPattern == <<Plus, Lit("@"), Plus, Lit("."), Plus>>

\* A backtracking match of pat[pi..] against s[si..], anchored at the end.
RECURSIVE RegexMatch(_, _, _, _)
RegexMatch(pat, pi, s, si) ==
    IF pi > Len(pat) THEN si > Len(s)
    ELSE IF pat[pi].kind = "lit"
    THEN /\ si <= Len(s)
         /\ s[si] = pat[pi].ch
         /\ RegexMatch(pat, pi + 1, s, si + 1)
    ELSE \E k \in 1..(Len(s) - si + 1) :
            /\ \A j \in si..(si + k - 1) : EmailClass(s[j])
            /\ RegexMatch(pat, pi + 1, s, si + k)

\* the mutant: the pattern without its end anchor
EmailTestUnanchored(v) ==
    \E e \in 0..Len(JsString(v)) :
        RegexMatch(EmailPattern, 1, SubSeq(JsString(v), 1, e), 1)

\* EMAIL_RE.test(v): the argument is converted to a string first
EmailTest(v) == RegexMatch(EmailPattern, 1, JsString(v), 1)

---------------------------------------------------------------------------
(* escapeHtml *)

\* the mutant: '&' escaped last, after '<' and '>'
escapeHtmlAmpLast(v) ==
    LET s0 == IF v.t = "undef" THEN <<>> ELSE JsString(v)
        s1 == ReplaceAll(s0, "<", <<"&", "l", "t", ";">>)
        s2 == ReplaceAll(s1, ">", <<"&", "g", "t", ";">>)
    IN  ReplaceAll(s2, "&", <<"&", "a", "m", "p", ";">>)

\* escapeHtml(str = ''): String(str), then '&', '<', '>' replaced in this order
escapeHtml(v) ==
    LET s0 == IF v.t = "undef" THEN <<>> ELSE JsString(v)
        s1 == ReplaceAll(s0, "&", <<"&", "a", "m", "p", ";">>)
        s2 == ReplaceAll(s1, "<", <<"&", "l", "t", ";">>)
    IN  ReplaceAll(s2, ">", <<"&", "g", "t", ";">>)

---------------------------------------------------------------------------
(* Requests and responses of the contact handlers *)

Variants == {"serverless", "app", "server"}

\* trimmed lengths below these are rejected
MinNameLen == 3
MinMessageLen == 10

NoBody == [name |-> Undef, email |-> Undef, message |-> Undef, company |-> Undef]

\* req.body || {}
Fields(req) == IF req.hasBody THEN req.body ELSE NoBody

NoRes == [status |-> 0, success |-> FALSE, message |-> "", allow |-> ""]
Json(status, success, message) ==
    [status |-> status, success |-> success, message |-> message, allow |-> ""]

MsgHoneypot == "Validacao falhou."
MsgName == "Nome invalido."
MsgEmail == "Email invalido."
MsgMessage == "Mensagem muito curta."
MsgSent == "Mensagem enviada com sucesso. Obrigado!"
MsgMethod == "Method not allowed"

\* the message of the catch block's 500 response
MsgRetry(v) ==
    IF v = "server"
    THEN "Erro ao enviar mensagem, tente novamente mais tarde."
    ELSE "Erro ao enviar a mensagem, tente novamente mais tarde."

\* the mutant: the length test off by one (<= for <)
TooShortInclusive(v, min) == Len(Trim(v.s)) <= min

\* v.trim().length < min
TooShort(v, min) == Len(Trim(v.s)) < min

\* !v || v.trim().length < min : "reject", "pass", or "throw" when v is truthy
\* and has no trim method
LengthRule(v, min) ==
    IF ~Truthy(v) THEN "reject"
    ELSE IF ~HasTrim(v) THEN "throw"
    ELSE IF TooShort(v, min) THEN "reject"
    ELSE "pass"

\* !email || !EMAIL_RE.test(email)
EmailRule(v) == IF ~Truthy(v) \/ ~EmailTest(v) THEN "reject" ELSE "pass"

\* the mutant: the honeypot tested after the other rules
ValidateHoneypotLast(v, req) ==
    IF v # "serverless" /\ ~req.hasBody THEN "throw"
    ELSE LET b == Fields(req) IN
         IF LengthRule(b.name, MinNameLen) # "pass"
         THEN (IF LengthRule(b.name, MinNameLen) = "throw" THEN "throw" ELSE "name")
         ELSE IF EmailRule(b.email) = "reject" THEN "email"
         ELSE IF LengthRule(b.message, MinMessageLen) # "pass"
         THEN (IF LengthRule(b.message, MinMessageLen) = "throw"
               THEN "throw" ELSE "message")
         ELSE IF Truthy(b.company) THEN "honeypot"
         ELSE "valid"

\* The destructuring and the four rules, in the order of the code: the rule
\* that answers, "valid", or "throw" when an exception reaches the catch block.
\* "server" destructures req.body itself and "app" reads req.body.company:
\* both throw on an absent body; "serverless" reads req.body || {}.
Validate(v, req) ==
    IF v # "serverless" /\ ~req.hasBody THEN "throw"
    ELSE LET b == Fields(req) IN
         IF Truthy(b.company) THEN "honeypot"
         ELSE IF LengthRule(b.name, MinNameLen) # "pass"
         THEN (IF LengthRule(b.name, MinNameLen) = "throw" THEN "throw" ELSE "name")
         ELSE IF EmailRule(b.email) = "reject" THEN "email"
         ELSE IF LengthRule(b.message, MinMessageLen) # "pass"
         THEN (IF LengthRule(b.message, MinMessageLen) = "throw"
               THEN "throw" ELSE "message")
         ELSE "valid"

\* The response sent before any await: 405 (serverless only; the express
\* routes receive POST alone), 400 of the rule that answered, 500 of the
\* catch block; NoRes when the request goes on to the transport.
EarlyResponse(v, req) ==
    IF v = "serverless" /\ req.method # "POST" THEN Json(405, FALSE, MsgMethod)
    ELSE CASE Validate(v, req) = "honeypot" -> Json(400, FALSE, MsgHoneypot)
           [] Validate(v, req) = "name" -> Json(400, FALSE, MsgName)
           [] Validate(v, req) = "email" -> Json(400, FALSE, MsgEmail)
           [] Validate(v, req) = "message" -> Json(400, FALSE, MsgMessage)
           [] Validate(v, req) = "throw" -> Json(500, FALSE, MsgRetry(v))
           [] OTHER -> NoRes

---------------------------------------------------------------------------
(* Composing the message.  A body is a sequence of [src, ch]: src is "lit"  *)
(* for text of the template (ch is then a whole piece of it) and the name  *)
(* of the request field a character was taken from otherwise.              *)

T(text) == <<[src |-> "lit", ch |-> text]>>
U(src, s) == [i \in 1..Len(s) |-> [src |-> src, ch |-> s[i]]]

\* `${v}` inside a template literal
Interp(src, v) == U(src, JsString(v))

LogoCandidates == <<"favicon.ico", "logo-icons0.png">>

\* the mutant: the candidates tried in reverse order
findLogoLast(d) ==
    IF LogoCandidates[2] \in d THEN LogoCandidates[2]
    ELSE IF LogoCandidates[1] \in d THEN LogoCandidates[1]
    ELSE ""

\* findLogoLocal / getLocalLogo: the first candidate that exists, "" for null
findLogoLocal(d) ==
    IF LogoCandidates[1] \in d THEN LogoCandidates[1]
    ELSE IF LogoCandidates[2] \in d THEN LogoCandidates[2]
    ELSE ""

ImgTag == "<img src=cid:portfolio_logo>"

Attachments(logoPath) ==
    IF logoPath # ""
    THEN <<[filename |-> logoPath, path |-> logoPath, cid |-> "portfolio_logo"]>>
    ELSE <<>>

\* the HTML body of "serverless" and "app": every field through escapeHtml
RichHtml(b, logoPath) ==
    T("<html><body>") \o (IF logoPath # "" THEN T(ImgTag) ELSE <<>>)
    \o T("<h1>Novo contacto do portfolio</h1><td>Nome</td><td>")
    \o U("name", escapeHtml(b.name))
    \o T("</td><td>Email</td><td><a href=mailto:")
    \o U("email", escapeHtml(b.email)) \o T(">")
    \o U("email", escapeHtml(b.email))
    \o T("</a></td><td>Assunto</td><div>")
    \o U("message", escapeHtml(b.message))
    \o T("</div><strong>Reply-To:</strong> <a href=mailto:")
    \o U("email", escapeHtml(b.email)) \o T(">")
    \o U("email", escapeHtml(b.email))
    \o T("</a><td>Enviado: (locale date)</td><hr/><p>footer</p></body></html>")

\* the plain-text body of "serverless" and "app"
RichText(b) ==
    T("Novo contacto - ") \o Interp("name", b.name)
    \o T("De: ") \o Interp("email", b.email)
    \o T("Assunto: Contacto pelo Portfolio Mensagem:")
    \o Interp("message", b.message)
    \o T("Reply-To: ") \o Interp("email", b.email)
    \o T("Enviado: (ISO date) ---- footer")

\* message.replace(/\n/g, '<br/>'): the inserted tags are template text
RECURSIVE BrMessage(_)
BrMessage(s) ==
    IF s = <<>> THEN <<>>
    ELSE (IF Head(s) = "\n" THEN T("<br/>") ELSE U("message", <<Head(s)>>))
         \o BrMessage(Tail(s))

\* the HTML body of "server": the fields interpolated as submitted
PlainHtml(b) ==
    T("<p><strong>Nome:</strong> ") \o Interp("name", b.name)
    \o T("</p><p><strong>Email:</strong> ") \o Interp("email", b.email)
    \o T("</p><hr/><p>") \o BrMessage(b.message.s) \o T("</p>")

\* the plain-text body of "server"
PlainText(b) ==
    T("Nome: ") \o Interp("name", b.name)
    \o T("Email: ") \o Interp("email", b.email)
    \o T("Mensagem:") \o Interp("message", b.message)

Subject(b) == T("Novo contacto do portfolio - ") \o Interp("name", b.name)

\* mailOptions of "serverless" and "app"
RichMail(b, d) ==
    [subject |-> Subject(b),
     text |-> RichText(b),
     html |-> RichHtml(b, findLogoLocal(d)),
     replyTo |-> b.email,
     attachments |-> Attachments(findLogoLocal(d))]

\* mailOptions of "server": no replyTo and no attachments
PlainMail(b) ==
    [subject |-> Subject(b),
     text |-> PlainText(b),
     html |-> PlainHtml(b),
     replyTo |-> Undef,
     attachments |-> <<>>]

MailOptions(v, b, d) == IF v = "server" THEN PlainMail(b) ELSE RichMail(b, d)

---------------------------------------------------------------------------
(* The contact process: requests arrive in slots 1..MaxReqs and interleave *)
(* at their awaits.                                                        *)

Slots == 1..MaxReqs

\* what a failing verify() or sendMail() rejects with
TransportErrors == {"ECONNREFUSED 10.0.0.5:587", "EAUTH user=me pass=s3cret"}

sAna == <<"A", "n", "a">>
sAb == <<"a", "b">>
sTag == <<"<", "b", ">", "X", "<", "/", "b", ">">>
eGood == <<"a", "@", "b", ".", "c", "o">>
eNoTld == <<"a", "@", "b">>
eSpecial == <<"<", "&", ">", "@", "b", ".", "c", "o">>
mGood == <<"h", "e", "l", "l", "o", " ", "w", "o", "r", "l", "d">>
mShort == <<"t", "o", "o", " ", "s", "h", "o", "r", "t">>
mSpecial == <<"1", "<", "2", " ", "&", "&", "\n", "3", ">", "2">>

Body(n, e, m, c) == [name |-> n, email |-> e, message |-> m, company |-> c]
Post(b) == [method |-> "POST", hasBody |-> TRUE, body |-> b]

\* the requests the contact process is driven with
SampleRequests ==
    { Post(Body(Str(sAna), Str(eGood), Str(mGood), Undef)),
      Post(Body(Str(sTag), Str(eSpecial), Str(mSpecial), Str(<<>>))),
      Post(Body(Str(sAna), Str(eGood), Str(mGood), Str(<<"x">>))),
      Post(Body(Num(7), Undef, Str(mShort), Str(<<"x">>))),
      Post(Body(Str(sAb), Str(eGood), Str(mGood), Undef)),
      Post(Body(Str(sAna), Str(eNoTld), Str(mGood), Undef)),
      Post(Body(Str(sAna), Str(eGood), Str(mShort), Undef)),
      Post(Body(Num(7), Str(eGood), Str(mGood), Undef)),
      [method |-> "POST", hasBody |-> FALSE, body |-> NoBody],
      [method |-> "GET", hasBody |-> FALSE, body |-> NoBody] }

IdleReq == [pc |-> "idle", req |-> [method |-> "", hasBody |-> FALSE, body |-> NoBody],
            handle |-> 0, res |-> NoRes]

ContactInit ==
    /\ variant \in Variants
    /\ disk \in SUBSET {LogoCandidates[1], LogoCandidates[2]}
    /\ globalTransporter = 0
    /\ created = 0
    /\ reqs = [r \in Slots |-> IdleReq]
    /\ sends = <<>>
    /\ verifies = <<>>
    /\ log = <<>>

\* slots are taken in order
CanArrive(r) ==
    /\ reqs[r].pc = "idle"
    /\ IF r = 1 THEN TRUE ELSE reqs[r - 1].pc # "idle"

\* res.status(..).json(..) of the synchronous part; the catch block logs first
RespondEarly(r, req) ==
    /\ reqs' = [reqs EXCEPT ![r] = [pc |-> "done", req |-> req, handle |-> 0,
                                    res |-> EarlyResponse(variant, req)]]
    /\ log' = IF EarlyResponse(variant, req).status = 500
              THEN Append(log, <<r, "TypeError">>) ELSE log
    /\ UNCHANGED <<variant, disk, globalTransporter, created, sends, verifies>>

\* getTransporter(): the memoized client, or a new one stored in the global;
\* the caller then suspends at its await
getTransporter(r, req) ==
    /\ IF globalTransporter # 0
       THEN /\ UNCHANGED <<created, globalTransporter>>
            /\ reqs' = [reqs EXCEPT ![r] = [pc |-> "awaitTransporter", req |-> req,
                                            handle |-> globalTransporter,
                                            res |-> NoRes]]
       ELSE /\ created' = created + 1
            /\ globalTransporter' = created + 1
            /\ reqs' = [reqs EXCEPT ![r] = [pc |-> "awaitTransporter", req |-> req,
                                            handle |-> created + 1, res |-> NoRes]]
    /\ UNCHANGED <<variant, disk, sends, verifies, log>>

\* The serverless handler up to its first await: the method check, the
\* validation, then getTransporter().
ServerlessReceive(r) ==
    /\ UNCHANGED notContact
    /\ variant = "serverless"
    /\ CanArrive(r)
    /\ \E req \in SampleRequests :
          IF EarlyResponse(variant, req) # NoRes
          THEN RespondEarly(r, req)
          ELSE getTransporter(r, req)

\* The serverless handler after await getTransporter(): the logo lookup, the
\* composition and the call of sendMail.
ServerlessCompose(r) ==
    /\ UNCHANGED notContact
    /\ variant = "serverless"
    /\ reqs[r].pc = "awaitTransporter"
    /\ sends' = Append(sends, [slot |-> r, handle |-> reqs[r].handle,
                               mail |-> MailOptions(variant, reqs[r].req.body, disk)])
    /\ reqs' = [reqs EXCEPT ![r].pc = "awaitSend"]
    /\ UNCHANGED <<variant, disk, globalTransporter, created, verifies, log>>

\* The express handlers ("app", "server") up to their first await: the
\* validation, a new client for this request, then verify().
ExpressReceive(r) ==
    /\ UNCHANGED notContact
    /\ variant # "serverless"
    /\ CanArrive(r)
    /\ \E req \in {q \in SampleRequests : q.method = "POST"} :
          IF EarlyResponse(variant, req) # NoRes
          THEN RespondEarly(r, req)
          ELSE /\ created' = created + 1
               /\ verifies' = Append(verifies, [slot |-> r, handle |-> created + 1])
               /\ reqs' = [reqs EXCEPT ![r] = [pc |-> "awaitVerify", req |-> req,
                                               handle |-> created + 1,
                                               res |-> NoRes]]
               /\ UNCHANGED <<variant, disk, globalTransporter, sends, log>>

\* verify() resolves: the composition and the call of sendMail
VerifyResolves(r) ==
    /\ UNCHANGED notContact
    /\ reqs[r].pc = "awaitVerify"
    /\ sends' = Append(sends, [slot |-> r, handle |-> reqs[r].handle,
                               mail |-> MailOptions(variant, reqs[r].req.body, disk)])
    /\ reqs' = [reqs EXCEPT ![r].pc = "awaitSend"]
    /\ UNCHANGED <<variant, disk, globalTransporter, created, verifies, log>>

\* the mutant: the catch block answers with the error's own message
CatchEchoingError(r, err) ==
    /\ log' = Append(log, <<r, err>>)
    /\ reqs' = [reqs EXCEPT ![r].pc = "done",
                            ![r].res = Json(500, FALSE, err)]
    /\ UNCHANGED <<variant, disk, globalTransporter, created, sends, verifies>>

\* catch (err): console.error(.., err), then the 500 with the fixed message
Catch(r, err) ==
    /\ log' = Append(log, <<r, err>>)
    /\ reqs' = [reqs EXCEPT ![r].pc = "done",
                            ![r].res = Json(500, FALSE, MsgRetry(variant))]
    /\ UNCHANGED <<variant, disk, globalTransporter, created, sends, verifies>>

\* verify() rejects
VerifyRejects(r) ==
    /\ UNCHANGED notContact
    /\ reqs[r].pc = "awaitVerify"
    /\ \E err \in TransportErrors : Catch(r, err)

\* sendMail() resolves: the 200
SendResolves(r) ==
    /\ UNCHANGED notContact
    /\ reqs[r].pc = "awaitSend"
    /\ reqs' = [reqs EXCEPT ![r].pc = "done",
                            ![r].res = Json(200, TRUE, MsgSent)]
    /\ UNCHANGED <<variant, disk, globalTransporter, created, sends, verifies, log>>

\* the mutant: a failed send is tried once more before the catch block
SendRejectsRetrying(r) ==
    /\ UNCHANGED notContact
    /\ reqs[r].pc = "awaitSend"
    /\ IF Len(SelectSeq(sends, LAMBDA c : c.slot = r)) < 2
       THEN /\ sends' = Append(sends, [slot |-> r, handle |-> reqs[r].handle,
                                       mail |-> MailOptions(variant, reqs[r].req.body,
                                                            disk)])
            /\ UNCHANGED <<variant, disk, globalTransporter, created, reqs,
                           verifies, log>>
       ELSE \E err \in TransportErrors : Catch(r, err)

\* sendMail() rejects
SendRejects(r) ==
    /\ UNCHANGED notContact
    /\ reqs[r].pc = "awaitSend"
    /\ \E err \in TransportErrors : Catch(r, err)

ContactNext ==
    \E r \in Slots :
        \/ ServerlessReceive(r)
        \/ ServerlessCompose(r)
        \/ ExpressReceive(r)
        \/ VerifyResolves(r)
        \/ VerifyRejects(r)
        \/ SendResolves(r)
        \/ SendRejects(r)

---------------------------------------------------------------------------
(* Placeholders of the variables a specification does not use *)

PureIdle == pin = Undef /\ pout = Undef
HealthIdle == health = Undef /\ now = 0
ContactIdle ==
    /\ disk = {}
    /\ globalTransporter = 0
    /\ created = 0
    /\ reqs = <<>>
    /\ sends = <<>>
    /\ verifies = <<>>
    /\ log = <<>>

Init == ContactInit /\ PureIdle /\ HealthIdle
Next == ContactNext
Spec == Init /\ [][Next]_vars

---------------------------------------------------------------------------
(* The vocabulary of the claims (from the specification's data model)      *)

\* the length of s without its leading and trailing blanks
TrimmedLen(s) ==
    LET solid == {i \in 1..Len(s) : s[i] \notin WhiteSpace}
    IN  IF solid = {} THEN 0
        ELSE (CHOOSE i \in solid : \A j \in solid : j <= i)
             - (CHOOSE i \in solid : \A j \in solid : i <= j) + 1

\* local@domain.tld: non-blank, non-'@' characters around one '@' and a '.'
\* after it, none of the three parts empty
EmailShape(s) ==
    \E i, j \in 1..Len(s) :
        /\ 1 < i /\ i + 1 < j /\ j < Len(s)
        /\ s[i] = "@" /\ s[j] = "."
        /\ \A k \in 1..Len(s) : k # i => (s[k] \notin WhiteSpace /\ s[k] # "@")

IsText(v) == v.t = "str"
Absent(v) == v.t = "undef"

\* a value was put into the honeypot field
HoneypotFilled(req) ==
    /\ req.hasBody
    /\ ~Absent(req.body.company)
    /\ req.body.company # Str(<<>>)

\* the ContactSubmission invariants
IsContactSubmission(req) ==
    /\ req.hasBody
    /\ ~HoneypotFilled(req)
    /\ IsText(req.body.name) /\ TrimmedLen(req.body.name.s) >= 3
    /\ IsText(req.body.email) /\ EmailShape(req.body.email.s)
    /\ IsText(req.body.message) /\ TrimmedLen(req.body.message.s) >= 10

SendsOf(r) == SelectSeq(sends, LAMBDA c : c.slot = r)
VerifiesOf(r) == SelectSeq(verifies, LAMBDA c : c.slot = r)
ErrorsOf(r) == {e \in TransportErrors : \E i \in 1..Len(log) : log[i] = <<r, e>>}

\* no client obtained or constructed, no verify, no send for the request
NoTransportCall(r) ==
    /\ reqs[r].handle = 0
    /\ SendsOf(r) = <<>>
    /\ VerifiesOf(r) = <<>>

Done(r) == reqs[r].pc = "done"

---------------------------------------------------------------------------
(* Claims checked under Spec *)

\* C1: every POST whose body fails validation is answered 400 with
\* {success:false, message} and makes no transport call.
C1_InvalidIs400WithoutTransport ==
    \A r \in Slots :
        (Done(r) /\ reqs[r].req.method = "POST" /\ ~IsContactSubmission(reqs[r].req))
        => /\ reqs[r].res.status = 400
           /\ reqs[r].res.success = FALSE
           /\ reqs[r].res.message # ""
           /\ NoTransportCall(r)

\* C2: a valid submission whose transport calls succeed is answered 200
\* {success:true} after exactly one send whose replyTo is the submitted email,
\* in every handler variant.
C2_ValidSendsOnceWithReplyTo ==
    \A r \in Slots :
        (Done(r) /\ IsContactSubmission(reqs[r].req) /\ ErrorsOf(r) = {})
        => /\ reqs[r].res.status = 200
           /\ reqs[r].res.success = TRUE
           /\ Len(SendsOf(r)) = 1
           /\ SendsOf(r)[1].mail.replyTo = reqs[r].req.body.email

\* C3: after a transport failure the response is 500 {success:false} with a
\* message that no part of the error reaches: two requests that differ only in
\* the transport's error get identical responses.
C3_FailureResponseIndependentOfError ==
    \A r1, r2 \in Slots :
        (/\ Done(r1) /\ Done(r2)
         /\ ErrorsOf(r1) # {} /\ ErrorsOf(r2) # {}
         /\ reqs[r1].req = reqs[r2].req)
        => /\ reqs[r1].res = reqs[r2].res
           /\ reqs[r1].res.status = 500
           /\ reqs[r1].res.success = FALSE
           /\ reqs[r1].res.message \notin TransportErrors

\* C3's case: the same valid submission failed twice, with different errors
C3_Witness ==
    /\ Done(1) /\ Done(2)
    /\ reqs[1].req = reqs[2].req
    /\ IsContactSubmission(reqs[1].req)
    /\ ErrorsOf(1) # {} /\ ErrorsOf(2) # {} /\ ErrorsOf(1) # ErrorsOf(2)
    /\ Len(SendsOf(1)) = 1 /\ Len(SendsOf(2)) = 1

\* a '&' of a body that starts one of the three entities
StartsEntity(h, i) ==
    \E ent \in {<<"a", "m", "p", ";">>, <<"l", "t", ";">>, <<"g", "t", ";">>} :
        /\ i + Len(ent) <= Len(h)
        /\ \A k \in 1..Len(ent) : h[i + k].ch = ent[k] /\ h[i + k].src = h[i].src

\* C8: in the HTML body of every message handed to the transport, no '<', '>'
\* or '&' taken from a user field appears unescaped.
C8_HtmlFieldsEscaped ==
    \A n \in 1..Len(sends) :
        LET h == sends[n].mail.html IN
        \A i \in 1..Len(h) :
            h[i].src # "lit"
            => /\ h[i].ch \notin {"<", ">"}
               /\ h[i].ch = "&" => StartsEntity(h, i)

\* C9: the mail client is constructed at most once per process and every
\* send goes through that one memoized handle.
C9_ClientConstructedAtMostOnce ==
    /\ created <= 1
    /\ \A n, m \in 1..Len(sends) : sends[n].handle = sends[m].handle

---------------------------------------------------------------------------
(* The validation and escapeHtml applied to enumerated inputs *)

StringsUpTo(A, n) == UNION {[1..k -> A] : k \in 0..n}
Rep(c, k) == [i \in 1..k |-> c]
Padded(c, k, l, r) == Rep(" ", l) \o Rep(c, k) \o Rep("\n", r)

eDoubleAt == <<"a", "@", "@", "b", ".", "c", "o", "m">>
eBlank == <<"a", " ", "@", "b", ".", "c", "o">>

ValidatorNames == {Undef, Num(7)} \cup {Str(s) : s \in StringsUpTo({"a", " "}, MaxNameLen)}
ValidatorEmails == {Undef, Str(eGood), Str(eNoTld)}
ValidatorMessages ==
    {Undef, Num(7)}
    \cup {Str(Padded("m", k, l, r)) : k \in 0..MaxMsgLen, l \in 0..MaxPad, r \in 0..MaxPad}
ValidatorCompanies == {Undef, Str(<<>>), Str(<<"x">>), Num(7)}

ValidatorInputs ==
    {[method |-> "POST", hasBody |-> FALSE, body |-> NoBody]}
    \cup {Post(Body(n, e, m, c)) : n \in ValidatorNames, e \in ValidatorEmails,
                                   m \in ValidatorMessages, c \in ValidatorCompanies}

EmailStrings ==
    StringsUpTo({"a", "@", ".", " "}, MaxEmailLen)
    \cup {eGood, eNoTld, eDoubleAt, eBlank, eSpecial}

EmailInputs ==
    {Post(Body(n, Str(e), Str(mGood), c)) :
        n \in {Str(sAna), Str(sAb)}, e \in EmailStrings, c \in {Undef, Str(<<"x">>)}}

EscapeInputs == {Str(s) : s \in StringsUpTo({"&", "<", ">", "a", ";"}, MaxEscLen) \cup {sTag}}

\* The synchronous part of a handler applied to the request pin: the rule that
\* answered and the response sent (NoRes: the request goes on to the transport).
ApplyValidate ==
    /\ pout = Undef
    /\ pout' = [outcome |-> Validate(variant, pin),
                res |-> EarlyResponse(variant, pin)]
    /\ UNCHANGED <<variant, disk, globalTransporter, created, reqs, sends,
                   verifies, log, pin, health, now>>

\* escapeHtml applied to pin, and the message composed for a submission whose
\* name is pin
ApplyEscape ==
    /\ pout = Undef
    /\ pout' = [esc |-> escapeHtml(pin),
                mail |-> MailOptions(variant, Body(pin, Str(eGood), Str(mGood), Undef),
                                     disk)]
    /\ UNCHANGED <<variant, disk, globalTransporter, created, reqs, sends,
                   verifies, log, pin, health, now>>

ValidatorInit ==
    /\ variant \in Variants
    /\ pin \in ValidatorInputs
    /\ pout = Undef
    /\ ContactIdle /\ HealthIdle

EmailInit ==
    /\ variant \in Variants
    /\ pin \in EmailInputs
    /\ pout = Undef
    /\ ContactIdle /\ HealthIdle

\* the handlers that use escapeHtml
EscapeInit ==
    /\ variant \in {"serverless", "app"}
    /\ pin \in EscapeInputs
    /\ pout = Undef
    /\ ContactIdle /\ HealthIdle

SpecValidator == ValidatorInit /\ [][ApplyValidate]_vars
SpecEmail == EmailInit /\ [][ApplyValidate]_vars
SpecEscape == EscapeInit /\ [][ApplyEscape]_vars

---------------------------------------------------------------------------
(* Claims checked under SpecValidator, SpecEmail and SpecEscape *)

Applied == pout # Undef

TextOrAbsent(v) == IsText(v) \/ Absent(v)

\* the first violated rule in the order honeypot, name, email, message
FirstViolated(req) ==
    IF HoneypotFilled(req) THEN "honeypot"
    ELSE IF Absent(req.body.name) \/ TrimmedLen(req.body.name.s) < 3 THEN "name"
    ELSE IF Absent(req.body.email) \/ ~EmailShape(req.body.email.s) THEN "email"
    ELSE IF Absent(req.body.message) \/ TrimmedLen(req.body.message.s) < 10
    THEN "message"
    ELSE "valid"

RuleResponse(rule) ==
    CASE rule = "honeypot" -> Json(400, FALSE, MsgHoneypot)
      [] rule = "name" -> Json(400, FALSE, MsgName)
      [] rule = "email" -> Json(400, FALSE, MsgEmail)
      [] rule = "message" -> Json(400, FALSE, MsgMessage)
      [] OTHER -> NoRes

\* C4: a submission whose honeypot field is filled is answered 400 with the
\* generic validation message whatever its name, email and message are.
C4_HoneypotAlwaysGeneric400 ==
    (Applied /\ HoneypotFilled(pin)) => pout.res = Json(400, FALSE, MsgHoneypot)

\* C4's case: the honeypot filled in a submission that breaks other rules too
C4_Witness ==
    /\ Applied /\ HoneypotFilled(pin)
    /\ pin.body.name = Num(7) /\ Absent(pin.body.email) /\ pin.body.message = Num(7)
    /\ pout.res.status = 400

\* C5: for a submission with string fields the outcome is that of the first
\* violated rule in the order honeypot, name, email, message, and valid only
\* when none is violated; name is rejected exactly below 3 trimmed characters and
\* message exactly below 10.
C5_FirstViolatedRuleAnswers ==
    (/\ Applied /\ pin.hasBody
     /\ \A f \in {"name", "email", "message", "company"} : TextOrAbsent(pin.body[f]))
    => /\ pout.outcome = FirstViolated(pin)
       /\ pout.res = RuleResponse(FirstViolated(pin))

\* C5's case: a name of exactly 3 and a message of exactly 10 trimmed characters,
\* both padded with blanks, pass
C5_Witness ==
    /\ Applied /\ pin.hasBody
    /\ IsText(pin.body.name) /\ TrimmedLen(pin.body.name.s) = 3
    /\ Len(pin.body.name.s) > 3
    /\ IsText(pin.body.message) /\ TrimmedLen(pin.body.message.s) = 10
    /\ Len(pin.body.message.s) > 10
    /\ pout.outcome = "valid"

HasBlank(s) == \E i \in 1..Len(s) : s[i] \in WhiteSpace

\* C6: when the honeypot and name rules pass, the answer is 400 'invalid email'
\* exactly when the whole email string is not of the shape local@domain.tld;
\* "a@b.co" is accepted, "a@b", "a@@b.com" and emails with blanks are rejected.
C6_EmailRuleIsShape ==
    (Applied /\ FirstViolated(pin) \notin {"honeypot", "name"})
    => /\ (pout.res = Json(400, FALSE, MsgEmail)) <=> ~EmailShape(pin.body.email.s)
       /\ pin.body.email.s = eGood => pout.outcome = "valid"
       /\ (pin.body.email.s \in {eNoTld, eDoubleAt} \/ HasBlank(pin.body.email.s))
          => pout.res = Json(400, FALSE, MsgEmail)

\* C6's case: "a@@b.com" rejected by the email rule
C6_Witness ==
    /\ Applied /\ pin.body.email.s = eDoubleAt
    /\ pout.res = Json(400, FALSE, MsgEmail)

CharEscape(c) ==
    CASE c = "&" -> <<"&", "a", "m", "p", ";">>
      [] c = "<" -> <<"&", "l", "t", ";">>
      [] c = ">" -> <<"&", "g", "t", ";">>
      [] OTHER -> <<c>>

RECURSIVE EscapedText(_)
EscapedText(s) ==
    IF s = <<>> THEN <<>> ELSE CharEscape(Head(s)) \o EscapedText(Tail(s))

\* the characters of a body that come from one field, in order
FieldChars(body, f) ==
    LET part == SelectSeq(body, LAMBDA e : e.src = f)
    IN  [i \in 1..Len(part) |-> part[i].ch]

\* C7: escapeHtml replaces each '&', '<', '>' by its entity, once, and leaves
\* every other character in place; its output has no '<' or '>'; the plain-text
\* body carries the raw value.
C7_EscapeIsCharwise ==
    Applied
    => /\ pout.esc = EscapedText(pin.s)
       /\ \A i \in 1..Len(pout.esc) : pout.esc[i] \notin {"<", ">"}
       /\ FieldChars(pout.mail.html, "name") = EscapedText(pin.s)
       /\ FieldChars(pout.mail.text, "name") = pin.s
       /\ pin.s = sTag
          => pout.esc = <<"&", "l", "t", ";", "b", "&", "g", "t", ";", "X",
                          "&", "l", "t", ";", "/", "b", "&", "g", "t", ";">>

\* C7's case: "<b>X</b>" escaped
C7_Witness ==
    /\ Applied /\ pin.s = sTag
    /\ Len(pout.esc) = 20
    /\ FieldChars(pout.mail.text, "name") = sTag

---------------------------------------------------------------------------
(* The health handler (src/api/health.js): one request, the clock, the      *)
(* verify() promise and the timer of the probe's race.                      *)

\* checkSmtp(4000)
TimeoutMs == 4000

HealthMethods == {"GET", "HEAD", "POST", "OPTIONS", "PUT", "DELETE"}
QueryDeepValues == {"", "1", "true", "0"}
\* what verify() does: settle either way, never settle, or throw when called
VerifyPlans == {"resolve", "reject", "never", "throw"}
ProbeErrors == {"connect ECONNREFUSED", "Invalid login"}

\* the settings checkSmtp requires
SmtpEnvKeys == {"SMTP_HOST", "SMTP_USER", "SMTP_PASS"}

AllowHeader == "GET,HEAD,OPTIONS,POST"
CacheShort == "public, max-age=5, stale-while-revalidate=10"
CacheNone == "no-store"

NoCheck == [ok |-> "absent", reason |-> "", durationMs |-> 0]
SmtpOk(d) == [ok |-> "true", reason |-> "", durationMs |-> d]
SmtpFail(reason) == [ok |-> "false", reason |-> reason, durationMs |-> 0]
SmtpSkipped(reason) == [ok |-> "null", reason |-> reason, durationMs |-> 0]

NoHealthRes == [status |-> 0, ok |-> "none", cache |-> "", allow |-> "",
                checks |-> NoCheck, sentAt |-> 0, count |-> 0]

HealthInit ==
    /\ health = [pc |-> "idle", method |-> "", bodyDeep |-> FALSE, queryDeep |-> "",
                 configured |-> SmtpEnvKeys, installed |-> TRUE, plan |-> "never",
                 verify |-> "none", timer |-> "none", race |-> "none",
                 start |-> 0, clients |-> 0, verifyCalls |-> 0,
                 res |-> NoHealthRes]
    /\ now = 0
    /\ variant = "serverless"
    /\ ContactIdle /\ PureIdle

\* the mutant: the body flag honoured on every method
wantDeepAnyMethod(h) == h.bodyDeep \/ h.queryDeep \in {"1", "true"}

\* (req.method === 'POST' && req.body && req.body.deep) ||
\* (req.query && (req.query.deep === '1' || req.query.deep === 'true'))
wantDeep(h) ==
    (h.method = "POST" /\ h.bodyDeep) \/ h.queryDeep \in {"1", "true"}

\* res.status(..).json(payload) / .end(): the response leaves once
HealthSend(h, status, ok, checks) ==
    [h EXCEPT !.pc = "done",
              !.res.status = status, !.res.ok = ok, !.res.checks = checks,
              !.res.sentAt = now, !.res.count = h.res.count + 1]

\* the mutant: the overall ok is never cleared
HealthFinishAlwaysOk(h, smtp) == HealthSend(h, 200, "true", smtp)

\* payload.checks = checks; ok false when smtp.ok === false; 200 or 502
HealthFinish(h, smtp) ==
    IF smtp.ok = "false" THEN HealthSend(h, 502, "false", smtp)
    ELSE HealthSend(h, 200, "true", smtp)

\* A request arrives: OPTIONS and unsupported methods are answered at once,
\* the others suspend at await readPackageInfo().
HealthReceive ==
    /\ health.pc = "idle"
    /\ \E m \in HealthMethods, bd \in BOOLEAN, qd \in QueryDeepValues,
          cf \in SUBSET SmtpEnvKeys, ins \in BOOLEAN, pl \in VerifyPlans :
          LET h == [health EXCEPT !.method = m, !.bodyDeep = bd, !.queryDeep = qd,
                                  !.configured = cf, !.installed = ins,
                                  !.plan = pl]
          IN  health' =
                IF m = "OPTIONS"
                THEN HealthSend([h EXCEPT !.res.allow = AllowHeader], 204, "none", NoCheck)
                ELSE IF m \notin {"GET", "HEAD", "POST"}
                THEN HealthSend([h EXCEPT !.res.allow = AllowHeader], 405, "false", NoCheck)
                ELSE [h EXCEPT !.pc = "awaitPkg"]
    /\ UNCHANGED <<now, variant, disk, globalTransporter, created, reqs, sends,
                   verifies, log, pin, pout>>

\* the mutant: the timer is not part of the race
StartProbeWithoutTimer(h) ==
    IF h.plan = "throw"
    THEN HealthFinish([h EXCEPT !.clients = h.clients + 1,
                                !.verifyCalls = h.verifyCalls + 1],
                      SmtpFail("verify threw"))
    ELSE [h EXCEPT !.pc = "awaitRace", !.clients = h.clients + 1,
                   !.verifyCalls = h.verifyCalls + 1, !.verify = "pending",
                   !.timer = "none", !.race = "pending", !.start = now]

\* checkSmtp past its guards: a new client, start = Date.now(), verify() called
\* and raced against the timer; a throw of verify() reaches the handler's catch
StartProbe(h) ==
    IF h.plan = "throw"
    THEN HealthFinish([h EXCEPT !.clients = h.clients + 1,
                                !.verifyCalls = h.verifyCalls + 1],
                      SmtpFail("verify threw"))
    ELSE [h EXCEPT !.pc = "awaitRace", !.clients = h.clients + 1,
                   !.verifyCalls = h.verifyCalls + 1, !.verify = "pending",
                   !.timer = "armed", !.race = "pending", !.start = now]

\* the mutant: only the host setting is required
checkSmtpHostOnly(h) ==
    IF "SMTP_HOST" \notin h.configured
    THEN HealthFinish(h, SmtpSkipped("SMTP not configured"))
    ELSE IF ~h.installed THEN HealthFinish(h, SmtpSkipped("nodemailer not installed"))
    ELSE StartProbe(h)

\* checkSmtp(timeoutMs) up to its await; h.configured holds the settings that
\* are set
checkSmtp(h) ==
    IF h.configured # SmtpEnvKeys THEN HealthFinish(h, SmtpSkipped("SMTP not configured"))
    ELSE IF ~h.installed THEN HealthFinish(h, SmtpSkipped("nodemailer not installed"))
    ELSE StartProbe(h)

\* the mutant: the short cache directive set for every report
HealthContinueCacheAll ==
    /\ health.pc = "awaitPkg"
    /\ health' =
         IF ~wantDeep(health)
         THEN HealthSend([health EXCEPT !.res.cache = CacheShort], 200, "true", NoCheck)
         ELSE checkSmtp([health EXCEPT !.res.cache = CacheShort])
    /\ UNCHANGED <<now, variant, disk, globalTransporter, created, reqs, sends,
                   verifies, log, pin, pout>>

\* After readPackageInfo(): the report is built; a shallow request is answered
\* 200 with the short cache directive, a deep one sets no-store and probes.
HealthContinue ==
    /\ health.pc = "awaitPkg"
    /\ health' =
         IF ~wantDeep(health)
         THEN HealthSend([health EXCEPT !.res.cache = CacheShort], 200, "true", NoCheck)
         ELSE checkSmtp([health EXCEPT !.res.cache = CacheNone])
    /\ UNCHANGED <<now, variant, disk, globalTransporter, created, reqs, sends,
                   verifies, log, pin, pout>>

\* the mutant: every settlement reports, the last one wins
SettleRaceLastWins(h, smtp) == HealthFinish([h EXCEPT !.race = "settled"], smtp)

\* The race settles with the first of its two promises; the handler resumes in
\* the same turn.  A later settlement finds the race settled and does nothing.
SettleRace(h, smtp) ==
    IF h.race = "pending" THEN HealthFinish([h EXCEPT !.race = "settled"], smtp) ELSE h

\* verify() resolves: { ok: true, durationMs: Date.now() - start }
ProbeVerifyResolves ==
    /\ health.verify = "pending"
    /\ health.plan = "resolve"
    /\ health' = SettleRace([health EXCEPT !.verify = "resolved"],
                            SmtpOk(now - health.start))
    /\ UNCHANGED <<now, variant, disk, globalTransporter, created, reqs, sends,
                   verifies, log, pin, pout>>

\* verify() rejects: { ok: false, reason: err.message }
ProbeVerifyRejects ==
    /\ health.verify = "pending"
    /\ health.plan = "reject"
    /\ \E err \in ProbeErrors :
          health' = SettleRace([health EXCEPT !.verify = "rejected"], SmtpFail(err))
    /\ UNCHANGED <<now, variant, disk, globalTransporter, created, reqs, sends,
                   verifies, log, pin, pout>>

\* setTimeout(() => rej(new Error('timeout')), timeoutMs) comes due
TimerFires ==
    /\ health.timer = "armed"
    /\ now >= health.start + TimeoutMs
    /\ health' = SettleRace([health EXCEPT !.timer = "fired"], SmtpFail("timeout"))
    /\ UNCHANGED <<now, variant, disk, globalTransporter, created, reqs, sends,
                   verifies, log, pin, pout>>

\* The clock advances, never past a pending timer's due time.
Tick ==
    /\ IF health.timer = "armed"
       THEN /\ now < health.start + TimeoutMs
            /\ now' = IF now + TickMs > health.start + TimeoutMs
                      THEN health.start + TimeoutMs ELSE now + TickMs
       ELSE /\ now + TickMs <= MaxClock
            /\ now' = now + TickMs
    /\ UNCHANGED <<health, variant, disk, globalTransporter, created, reqs, sends,
                   verifies, log, pin, pout>>

HealthNext ==
    \/ HealthReceive
    \/ HealthContinue
    \/ ProbeVerifyResolves
    \/ ProbeVerifyRejects
    \/ TimerFires
    \/ Tick

SpecHealth == HealthInit /\ [][HealthNext]_vars

\* The event loop runs a due timer and a settled file read, and time passes;
\* nothing obliges verify() to settle.
FairSpecHealth ==
    /\ SpecHealth
    /\ WF_vars(HealthContinue)
    /\ WF_vars(TimerFires)
    /\ WF_vars(Tick)

---------------------------------------------------------------------------
(* Claims checked under FairSpecHealth *)

ProbeHangs == health.plan = "never" /\ health.pc = "awaitRace"

TimedOut ==
    /\ health.pc = "done"
    /\ health.res.count = 1
    /\ health.res.checks = SmtpFail("timeout")
    /\ health.res.sentAt = health.start + TimeoutMs

\* C10: a deep check whose verify() never settles is answered when the 4000 ms
\* counted from the start of the probe have elapsed, with the probe result
\* {ok:false, reason:'timeout'}; the handler never waits past that bound.
C10_HangingVerifyTimesOut ==
    /\ [](health.pc = "awaitRace" => now <= health.start + TimeoutMs)
    /\ []((health.plan = "never" /\ health.pc = "done" /\ health.verifyCalls > 0)
          => TimedOut)
    /\ (ProbeHangs ~> TimedOut)

\* C10's case: the probe started late, verify() stayed pending, the timer won
C10_Witness ==
    /\ health.plan = "never" /\ health.verify = "pending"
    /\ health.start > 0
    /\ TimedOut
    /\ health.res.status = 502

---------------------------------------------------------------------------
(* Claims checked under SpecHealth *)

HealthDone == health.pc = "done"

\* a report was sent: neither the preflight's 204 nor the 405
Reported == HealthDone /\ health.res.status \notin {204, 405}

DeepResponse == Reported /\ health.res.checks # NoCheck

\* C11: in a deep response a probe failure (verify() rejected, the timer fired
\* first, the probe threw) gives ok false and 502 with checks.smtp = {ok:false,
\* reason}, a successful verify() gives ok true and 200; a settled probe is
\* always followed by exactly one response.
C11_ProbeFailureIs502 ==
    /\ DeepResponse
       => /\ health.res.checks.ok = "false"
             => /\ health.res.ok = "false" /\ health.res.status = 502
                /\ health.res.checks.reason # ""
          /\ health.res.checks.ok = "true"
             => health.res.ok = "true" /\ health.res.status = 200
          /\ (health.verify = "rejected" /\ health.timer = "armed")
             => health.res.checks.ok = "false"
          /\ (health.timer = "fired" /\ health.verify = "pending")
             => health.res.checks.ok = "false"
          /\ (health.plan = "throw" /\ health.verifyCalls > 0)
             => health.res.checks.ok = "false"
          /\ (health.verify = "resolved" /\ health.timer = "armed")
             => health.res.checks.ok = "true"
    /\ health.race = "settled" => (HealthDone /\ health.res.count = 1)
    /\ (health.plan = "throw" /\ health.verifyCalls > 0)
       => (HealthDone /\ health.res.count = 1)

\* C11's case: verify() rejected before the timer and the answer is 502
C11_Witness ==
    /\ DeepResponse
    /\ health.verify = "rejected" /\ health.timer = "armed"
    /\ health.res.status = 502 /\ health.res.ok = "false"
    /\ health.res.checks.reason \in ProbeErrors

\* C12: every shallow report carries the short cache directive and every deep
\* report carries no-store, whatever the probe's outcome; no deep report is
\* cacheable.
C12_CacheDirectiveByMode ==
    Reported
    => /\ DeepResponse => health.res.cache = CacheNone
       /\ ~DeepResponse => health.res.cache = CacheShort
       /\ health.res.cache \in {CacheShort, CacheNone}

\* C12's case: a deep report of a failed probe, not cacheable
C12_Witness ==
    /\ DeepResponse
    /\ health.res.status = 502
    /\ health.res.cache = CacheNone

---------------------------------------------------------------------------
(* Further claims checked under Spec                                        *)

\* C13: a contact request whose method is not POST is answered 405 with an
\* Allow header listing the supported methods, before any validation or
\* transport call.
C13_UnsupportedMethodIs405WithAllow ==
    \A r \in Slots :
        (Done(r) /\ reqs[r].req.method # "POST")
        => /\ reqs[r].res.status = 405
           /\ reqs[r].res.allow # ""
           /\ NoTransportCall(r)

\* C14: the contact handler answers 500 only after a failure of the mail
\* transport; a POST that is not a ContactSubmission gets 400 with
\* {success:false, message}.
C14_Only500OnTransportFailure ==
    \A r \in Slots :
        Done(r)
        => /\ reqs[r].res.status = 500 => ErrorsOf(r) # {}
           /\ (reqs[r].req.method = "POST" /\ ~IsContactSubmission(reqs[r].req))
              => /\ reqs[r].res.status = 400
                 /\ ~reqs[r].res.success
                 /\ reqs[r].res.message # ""

\* the candidate paths that exist, in list order
ExistingCandidates == SelectSeq(LogoCandidates, LAMBDA p : p \in disk)

\* the inline logo is in the attachment list of a message
HasLogoAttachment(mail) ==
    \E i \in 1..Len(mail.attachments) : mail.attachments[i].cid = "portfolio_logo"

\* the template's <img> tag is in the HTML body of a message
HasLogoTag(mail) ==
    \E i \in 1..Len(mail.html) : mail.html[i] = [src |-> "lit", ch |-> ImgTag]

\* C15: the attached logo is the first candidate, in list order, that exists
\* on disk; a message carries the inline logo exactly when its HTML body has
\* the <img> tag of that content-id, both when a logo was resolved and
\* neither otherwise; without a logo the message is sent all the same and
\* the request answers 200.
C15_LogoAttachedIffTagged ==
    /\ \A i \in 1..Len(sends) :
          LET mail == sends[i].mail IN
          /\ HasLogoAttachment(mail) <=> HasLogoTag(mail)
          /\ Len(mail.attachments) <= 1
          /\ variant # "server"
             => /\ HasLogoAttachment(mail) <=> ExistingCandidates # <<>>
                /\ HasLogoAttachment(mail)
                   => /\ mail.attachments[1].path = Head(ExistingCandidates)
                      /\ mail.attachments[1].filename = Head(ExistingCandidates)
          /\ variant = "server" => ~HasLogoAttachment(mail)
    /\ \A r \in Slots :
          /\ reqs[r].pc = "awaitSend" => Len(SendsOf(r)) = 1
          /\ (Done(r) /\ IsContactSubmission(reqs[r].req) /\ ErrorsOf(r) = {})
             => /\ reqs[r].res.status = 200
                /\ Len(SendsOf(r)) = 1

\* C15's case: both candidates exist and a message went out with the first
\* one attached and tagged
C15_Witness ==
    /\ Len(ExistingCandidates) = 2
    /\ \E r \in Slots :
          /\ Done(r) /\ reqs[r].res.status = 200
          /\ Len(SendsOf(r)) = 1
          /\ HasLogoTag(SendsOf(r)[1].mail)
          /\ SendsOf(r)[1].mail.attachments[1].path = LogoCandidates[1]

---------------------------------------------------------------------------
(* Further claims checked under SpecHealth                                  *)

\* a step in which the race between verify() and the timer settles
RaceSettles == health.race = "pending" /\ health'.race = "settled"

\* the step of the first settlement fixes the probe result by who settled
FirstSettlerDecides ==
    RaceSettles
    => /\ health'.pc = "done" /\ health'.res.count = 1
       /\ (health.timer = "armed" /\ health'.timer = "fired")
          => /\ health'.res.checks = SmtpFail("timeout")
             /\ health'.res.status = 502
       /\ (health.verify = "pending" /\ health'.verify = "resolved")
          => /\ health'.res.checks.ok = "true"
             /\ health'.res.status = 200
       /\ (health.verify = "pending" /\ health'.verify = "rejected")
          => /\ health'.res.checks.ok = "false"
             /\ health'.res.checks.reason \in ProbeErrors
             /\ health'.res.status = 502

\* a settlement after the first one changes neither the result nor the
\* number of responses
LoserIsAbandoned == health.race = "settled" => health'.res = health.res

\* C16: whichever of verify() and the timer settles first fixes the probe
\* result (timeout failure, success, or failure with verify's error message);
\* the other's later settlement changes nothing and sends no second response.
C16_FirstSettlerFixesResult ==
    /\ [][FirstSettlerDecides /\ LoserIsAbandoned]_vars
    /\ [](health.race = "settled" => health.res.count = 1)

\* C16's case: the timer fired first and verify() resolved afterwards; the
\* report is still the timeout failure, sent once
C16_Witness ==
    /\ health.timer = "fired"
    /\ health.verify = "resolved"
    /\ health.res.checks = SmtpFail("timeout")
    /\ health.res.status = 502
    /\ health.res.count = 1

---------------------------------------------------------------------------
(* The no-retry claim, checked under Spec                                   *)

\* request r suspended at await sendMail() and the send fails in this step
SendFails(r) ==
    /\ reqs[r].pc = "awaitSend"
    /\ reqs'[r].pc = "done"
    /\ log' # log

\* a failed send goes straight to the 500: no send or verify is added
FailedSendGoesTo500 ==
    \A r \in Slots :
        SendFails(r)
        => /\ reqs'[r].res.status = 500
           /\ sends' = sends
           /\ verifies' = verifies

\* an answered request makes no further transport call
AnsweredIsFinal ==
    \A r \in Slots :
        Done(r)
        => /\ reqs'[r] = reqs[r]
           /\ SelectSeq(sends', LAMBDA c : c.slot = r) = SendsOf(r)
           /\ SelectSeq(verifies', LAMBDA c : c.slot = r) = VerifiesOf(r)

\* a request suspended at await sendMail() has made its one send
OneSendInFlight ==
    \A r \in Slots :
        reqs[r].pc = "awaitSend"
        => Len(SelectSeq(sends', LAMBDA c : c.slot = r)) = 1

\* C17: send is invoked at most once for a contact request (and verify at
\* most once); a failed send leads directly to the 500 response with no
\* further send or verify for that request.
C17_NoRetries ==
    /\ [](\A r \in Slots : Len(SendsOf(r)) <= 1 /\ Len(VerifiesOf(r)) <= 1)
    /\ [][FailedSendGoesTo500 /\ AnsweredIsFinal /\ OneSendInFlight]_vars

\* C17's case: a request whose single send failed, answered 500
C17_Witness ==
    \E r \in Slots :
        /\ Done(r)
        /\ reqs[r].res.status = 500
        /\ Len(SendsOf(r)) = 1
        /\ ErrorsOf(r) # {}

---------------------------------------------------------------------------
(* Deep mode and the unconfigured probe, checked under SpecHealth           *)

\* the request went into the connectivity probe
ProbeEntered == health.pc = "awaitRace" \/ DeepResponse

\* the request is past the choice between shallow and deep
ModeChosen == health.pc = "awaitRace" \/ Reported

\* a shallow answer: no client, no verify(), no checks field, 200
ShallowAnswer ==
    /\ health.clients = 0
    /\ health.verifyCalls = 0
    /\ health.pc = "done"
    /\ health.res.checks = NoCheck
    /\ health.res.status = 200

\* deep mode asked for by a body flag or a query flag, whatever the method
DeepRequested == health.bodyDeep \/ health.queryDeep \in {"1", "true"}

\* deep mode asked for by a body flag of a POST, or by a query flag
DeepRequestedByPostOrQuery ==
    \/ health.method = "POST" /\ health.bodyDeep
    \/ health.queryDeep \in {"1", "true"}

\* C18 as stated: the probe is entered exactly when a body flag or a query
\* flag asks for deep mode on any supported method; every other supported
\* request is shallow.
C18_DeepIffRequestedAnyMethod ==
    ModeChosen
    => /\ ProbeEntered <=> DeepRequested
       /\ ~DeepRequested => ShallowAnswer

\* C18, amended: the probe is entered exactly when the request is a POST whose
\* body has a truthy deep flag, or its query has deep=1 or deep=true; a body
\* flag on GET or HEAD is ignored.  Every other supported request is shallow:
\* no client, no verify(), no checks field, status 200.  A probe that passes
\* its configuration guards constructs one client and calls verify() once.
C18_DeepIffPostFlagOrQueryFlag ==
    ModeChosen
    => /\ ProbeEntered <=> DeepRequestedByPostOrQuery
       /\ ~DeepRequestedByPostOrQuery => ShallowAnswer
       /\ (ProbeEntered /\ health.configured = SmtpEnvKeys /\ health.installed)
          => health.clients = 1 /\ health.verifyCalls = 1

\* C18's case: a GET that carries the body flag and no query flag is shallow
C18_Witness ==
    /\ health.method \in {"GET", "HEAD"}
    /\ health.bodyDeep
    /\ health.queryDeep \notin {"1", "true"}
    /\ Reported
    /\ ShallowAnswer

\* C19: a deep check made while the host, the user or the password is not
\* configured constructs no client and calls no verify(); the probe result is
\* {ok:null, reason:'SMTP not configured'}, the overall ok stays true and the
\* status is 200.
C19_UnconfiguredProbeIsSkipped ==
    (ModeChosen /\ DeepRequestedByPostOrQuery /\ health.configured # SmtpEnvKeys)
    => /\ health.clients = 0
       /\ health.verifyCalls = 0
       /\ health.pc = "done"
       /\ health.res.checks = SmtpSkipped("SMTP not configured")
       /\ health.res.ok = "true"
       /\ health.res.status = 200
       /\ health.res.count = 1

\* C19's case: a deep check with the host set and the password missing
C19_Witness ==
    /\ Reported
    /\ DeepRequestedByPostOrQuery
    /\ "SMTP_HOST" \in health.configured
    /\ "SMTP_PASS" \notin health.configured
    /\ health.res.checks = SmtpSkipped("SMTP not configured")
    /\ health.res.status = 200

===========================================================================
